---- MODULE Spec2Model ----
(***************************************************************************)
(* nest-guard (src/src/lib.rs): the Nested bundle and the composition      *)
(* operations nest_borrow, nest_try_borrow, nest_borrow_mut,               *)
(* nest_try_borrow_mut, nest_upgrade (Rc and Arc), nest_lock,              *)
(* nest_try_lock, nest_try_read and nest_try_write.                        *)
(*                                                                         *)
(* The program under study is a stack of Depth wrapped primitives, layer 1 *)
(* outermost, each layer holding the next one and the innermost holding an *)
(* integer: RefCell<RefCell<i32>>, Weak<Weak<i32>>, Weak<RefCell<i32>>...  *)
(* The kind of every layer is drawn in Init.  A layer of a weak kind is a  *)
(* Weak handle to a reference-counted box that holds the next layer and is *)
(* kept alive by a root strong handle of the enclosing scope.              *)
(*                                                                         *)
(* Actors are the holders of bundles: the threads of a program that shares *)
(* locks, or the bundle variables of one thread.  Each holds at most one   *)
(* chain at a time.  Destruction is the drop glue of the compiler: the     *)
(* fields are destroyed one after the other, each destructor being one     *)
(* step on the wrapped primitive.                                          *)
(***************************************************************************)
EXTENDS Integers, Sequences, FiniteSets

\* Bounds of the model.
Depth == 2
NActors == 2
MaxVal == 1

Layers == 1..Depth
Actors == 1..NActors
Values == 0..MaxVal
Kinds == {"RefCell", "RcWeak", "ArcWeak", "Mutex", "RwLock"}

VARIABLES
    kinds,      \* kinds[l]: the primitive wrapped at layer l (fixed by Init)
    flag,       \* flag[l]: borrow / lock state: 0 Unlocked, n > 0 Shared(n), -1 Exclusive
    poison,     \* poison[l]: the poison flag of a Mutex / RwLock
    strong,     \* strong[l]: strong count of the box a weak layer points to
    rootHeld,   \* rootHeld[l]: the enclosing scope still holds its strong handle
    val,        \* the integer held by the innermost layer
    rootState,  \* where the layer-1 primitive lives: "scope", "moved", "dropped"
    bundle,     \* bundle[t]: the handle or Nested bundle actor t holds
    pending,    \* pending[t]: handles whose destructor has yet to run, in order
    panicking,  \* panicking[t]: actor t is unwinding
    waiting,    \* waiting[t]: actor t is suspended inside nest_lock
    last,       \* last[t]: the outcome of the last composition operation of t
    wrote,      \* wrote[t]: the value t last wrote through its bundle, -1 if none
    failedVal,  \* the last value written by a holder that then failed, -1 if none
    other,      \* a second stack, of cells: its borrow states and its integer
    away        \* away[t]: the chain of t is on the second stack

vars == <<kinds, flag, poison, strong, rootHeld, val, rootState, bundle, pending,
          panicking, waiting, last, wrote, failedVal,
          other, away>>

\* The stacks the tests of the repository build: every layer of one kind
\* (test_many_refcell, test_many_rc, test_many_arc, test_many_mutex,
\* test_many_rwlock) and cells behind a weak reference (test_rc_refcell).
Stacks ==
    {[l \in Layers |-> k] : k \in Kinds}
        \cup {[l \in Layers |-> IF l = 1 THEN "RcWeak" ELSE "RefCell"]}

IsWeak(k) == k \in {"RcWeak", "ArcWeak"}
IsLock(k) == k \in {"Mutex", "RwLock"}

\* A layer stored inline in the layer-1 object: no box lies between them.
InRoot(l) == \A j \in 1..(l - 1) : ~IsWeak(kinds[j])

(***************************************************************************)
(* Handles.                                                                *)
(***************************************************************************)
Empty == [tag |-> "Empty"]
\* &x: a plain reference to the layer-1 primitive, which stays in its scope.
PlainRef == [tag |-> "PlainRef"]
\* A receiver that stores the layer-1 primitive inline (ManuallyDrop<RefCell<T>>,
\* AssertUnwindSafe<Mutex<T>>, ...): its deref yields a pointer into itself.
Inline == [tag |-> "Inline"]
\* Ref / RefMut / MutexGuard / RwLock guards / Rc / Arc: a view of layer l.
\* mode is "shared", "excl" or "strong"; dangling: the location the view
\* points to is not where its target is.
View(l, m, d) == [tag |-> "View", layer |-> l, mode |-> m, dangling |-> d]

\* struct Nested { inner, outer }
Nested(inner, outer) == [tag |-> "Nested", inner |-> inner, outer |-> outer]

\* Drop glue of Nested in the wrong order (outer first).
RECURSIVE DropOrder_outer_first(_)
DropOrder_outer_first(h) ==
    IF h.tag = "Nested"
        THEN DropOrder_outer_first(h.outer) \o DropOrder_outer_first(h.inner)
        ELSE IF h.tag = "Empty" THEN <<>> ELSE <<h>>

\* Drop glue: fields are dropped in declaration order, inner then outer.
RECURSIVE DropOrder(_)
DropOrder(h) ==
    IF h.tag = "Nested"
        THEN DropOrder(h.inner) \o DropOrder(h.outer)
        ELSE IF h.tag = "Empty" THEN <<>> ELSE <<h>>

\* The destructors the drop glue has to run: a plain reference has none, so
\* nothing is left to do once only plain references remain.
Glue(s) == IF \A i \in 1..Len(s) : s[i].tag = "PlainRef" THEN <<>> ELSE s

\* The innermost field of a bundle: what Deref for Nested forwards to.
RECURSIVE Innermost(_)
Innermost(h) == IF h.tag = "Nested" THEN Innermost(h.inner) ELSE h

\* Deref: the layer a handle dereferences to (Depth + 1: the integer).
deref(h) ==
    LET i == Innermost(h)
    IN  IF i.tag = "View" THEN i.layer + 1 ELSE 1

RECURSIVE HasInline(_)
HasInline(h) ==
    IF h.tag = "Nested" THEN HasInline(h.outer) ELSE h.tag = "Inline"

\* Passing a receiver by value: when it stores the layer-1 primitive inline
\* and the build does not elide the move, every view into the layer-1 object
\* is left pointing at the place the object has left.
RECURSIVE MoveHandle(_, _)
MoveHandle(h, moved) ==
    IF ~moved THEN h
    ELSE IF h.tag = "Nested"
        THEN Nested(MoveHandle(h.inner, moved), MoveHandle(h.outer, moved))
    ELSE IF h.tag = "View"
        THEN [h EXCEPT !.dangling = @ \/ (InRoot(h.layer) /\ ~IsWeak(kinds[h.layer]))]
    ELSE h

\* The outcomes of moving a receiver into and out of an operation: only a
\* receiver that owns the layer-1 primitive inline relocates it, unless the build
\* elides the move.  An operation that would dereference a view its own move
\* has left dangling is undefined and is not followed.
Moves(self) ==
    IF HasInline(self) /\ (Innermost(self).tag = "View" => Innermost(self).mode = "strong")
        THEN BOOLEAN
        ELSE {FALSE}

\* remove_lifetime: the same reference, with the lifetime cast away.
remove_lifetime(x) == x

\* The views a handle holds, in the order of their release.
OnlyViews(s) == SelectSeq(s, LAMBDA x : x.tag = "View")
Views(h) == OnlyViews(DropOrder(h))

Range(s) == {s[i] : i \in 1..Len(s)}
\* The handles of actor t that are alive: held, or not yet destroyed.
Live(t) == Range(DropOrder(bundle[t])) \cup Range(pending[t])
LiveViews(t) == {h \in Live(t) : h.tag = "View"}
Holders(l, m) == {t \in Actors : \E h \in LiveViews(t) : h.layer = l /\ h.mode = m}

(***************************************************************************)
(* The wrapped primitives, as the composition operations call them.        *)
(***************************************************************************)
\* try_borrow that admits one reader at a time.
RefCell_try_borrow_single_reader(f) ==
    IF f = 0 THEN [ok |-> TRUE, flag |-> 1] ELSE [ok |-> FALSE, flag |-> f]

\* RefCell::try_borrow
RefCell_try_borrow(f) ==
    IF f >= 0 THEN [ok |-> TRUE, flag |-> f + 1] ELSE [ok |-> FALSE, flag |-> f]

\* try_borrow_mut that looks for a writer only.
RefCell_try_borrow_mut_ignores_readers(f) ==
    IF f >= 0 THEN [ok |-> TRUE, flag |-> 0 - 1] ELSE [ok |-> FALSE, flag |-> f]

\* RefCell::try_borrow_mut
RefCell_try_borrow_mut(f) ==
    IF f = 0 THEN [ok |-> TRUE, flag |-> 0 - 1] ELSE [ok |-> FALSE, flag |-> f]

\* Mutex::try_lock
Mutex_try_lock(f) ==
    IF f = 0 THEN [ok |-> TRUE, flag |-> 0 - 1] ELSE [ok |-> FALSE, flag |-> f]

\* RwLock::try_read
RwLock_try_read(f) ==
    IF f >= 0 THEN [ok |-> TRUE, flag |-> f + 1] ELSE [ok |-> FALSE, flag |-> f]

\* RwLock::try_write
RwLock_try_write(f) ==
    IF f = 0 THEN [ok |-> TRUE, flag |-> 0 - 1] ELSE [ok |-> FALSE, flag |-> f]

\* upgrade that hands out a strong handle whatever the count.
Weak_upgrade_ignores_count(s) == [ok |-> TRUE, strong |-> s + 1]

\* upgrade that succeeds only when another upgraded handle is alive.
Weak_upgrade_needs_other_handle(s) ==
    IF s > 1 THEN [ok |-> TRUE, strong |-> s + 1] ELSE [ok |-> FALSE, strong |-> s]

\* Weak::upgrade
Weak_upgrade(s) ==
    IF s > 0 THEN [ok |-> TRUE, strong |-> s + 1] ELSE [ok |-> FALSE, strong |-> s]

\* A match that unwraps the poison flag on the caller's behalf.
LockResult_unwraps_poison(p) == "Ok"

\* The result of a lock acquire that got the lock: poison-flagged or not.
LockResult(p) == IF p THEN "Poisoned" ELSE "Ok"

\* A release that leaves the shared count as it is.
ReleaseFlag_keeps_count(f, m) == IF m = "shared" THEN f ELSE 0

\* Releasing a view: the new state of the primitive.
ReleaseFlag(f, m) == IF m = "shared" THEN f - 1 ELSE 0

\* No composition operation has returned to the actor yet.
NoCall == "none"

Init ==
    /\ kinds \in Stacks
    /\ flag = [l \in Layers |-> 0]
    /\ poison = [l \in Layers |-> FALSE]
    /\ strong = [l \in Layers |-> IF IsWeak(kinds[l]) THEN 1 ELSE 0]
    /\ rootHeld = [l \in Layers |-> IsWeak(kinds[l])]
    /\ val = 0
    /\ rootState = "scope"
    /\ bundle = [t \in Actors |-> Empty]
    /\ pending = [t \in Actors |-> <<>>]
    /\ panicking = [t \in Actors |-> FALSE]
    /\ waiting = [t \in Actors |-> FALSE]
    /\ last = [t \in Actors |-> NoCall]
    /\ wrote = [t \in Actors |-> 0 - 1]
    /\ failedVal = 0 - 1
    /\ other = [id |-> "y", flag |-> [l \in Layers |-> 0], val |-> 1]
    /\ away = [t \in Actors |-> FALSE]


(***************************************************************************)
(* Pieces shared by the composition operations.                            *)
(***************************************************************************)
\* The receiver of a composition operation of actor t: the bundle t holds or,
\* when it holds none, &x, a reference to the primitive of the enclosing scope.
\* The operation can be called when t is between statements and the receiver
\* dereferences to a layer.
\* A dereference through a dangling view is undefined and is not followed.
Receiver(t) == IF bundle[t] = Empty THEN PlainRef ELSE bundle[t]

Ready(t) ==
    /\ bundle[t] = Empty => rootState = "scope"
    /\ pending[t] = <<>>
    /\ ~waiting[t]
    /\ deref(Receiver(t)) \in Layers
    /\ (Innermost(Receiver(t)).tag = "View" => ~Innermost(Receiver(t)).dangling)

\* The operation returns: its outcome.
Returned(t, out) ==
    /\ last' = [last EXCEPT ![t] = out]
    /\ wrote' = [wrote EXCEPT ![t] = 0 - 1]

\* A bundle that lets go of its receiver without destroying it.
Bundled_without_owner(t, l, mode, moved) ==
    /\ bundle' = [bundle EXCEPT ![t] = Nested(View(l, mode, FALSE), PlainRef)]
    /\ waiting' = [waiting EXCEPT ![t] = FALSE]
    /\ UNCHANGED <<pending, panicking>>

\* Nested { inner, outer: self }
Bundled(t, l, mode, moved) ==
    /\ bundle' = [bundle EXCEPT ![t] =
                    Nested(View(l, mode, moved /\ InRoot(l) /\ ~IsWeak(kinds[l])),
                           MoveHandle(Receiver(t), moved))]
    /\ waiting' = [waiting EXCEPT ![t] = FALSE]
    /\ UNCHANGED <<pending, panicking>>

\* An operation that hands its receiver back when it fails.
Consumed_keeps_receiver(t, moved, panic) ==
    /\ UNCHANGED <<bundle, pending, waiting>>
    /\ panicking' = [panicking EXCEPT ![t] = panic]

\* The operation ends without a bundle: self goes out of scope and is dropped
\* (by the return, or by the unwinding of a panic).
Consumed(t, moved, panic) ==
    /\ bundle' = [bundle EXCEPT ![t] = Empty]
    /\ pending' = [pending EXCEPT ![t] = Glue(DropOrder(MoveHandle(Receiver(t), moved)))]
    /\ panicking' = [panicking EXCEPT ![t] = panic /\ pending'[t] # <<>>]
    /\ UNCHANGED waiting

(***************************************************************************)
(* mod cell: trait NestedRefCell                                           *)
(***************************************************************************)
\* nest_borrow that asks the cell for an exclusive borrow.
nest_borrow_takes_exclusive(t) ==
    /\ Ready(t)
    /\ LET self == Receiver(t)
           me == remove_lifetime(deref(self))
           inner == RefCell_try_borrow_mut(flag[me])
       IN  /\ kinds[me] = "RefCell"
           /\ flag' = [flag EXCEPT ![me] = inner.flag]
           /\ IF inner.ok
                THEN /\ Bundled(t, me, "excl", FALSE)
                     /\ Returned(t, "Ok")
                ELSE /\ Consumed(t, FALSE, TRUE)
                     /\ Returned(t, "abort")
    /\ UNCHANGED <<kinds, other, away, poison, strong, rootHeld, val, rootState, failedVal>>

nest_borrow(t) ==
    /\ Ready(t)
    /\ LET self == Receiver(t)
           me == remove_lifetime(deref(self))
           inner == RefCell_try_borrow(flag[me])
       IN  /\ kinds[me] = "RefCell"
           /\ flag' = [flag EXCEPT ![me] = inner.flag]
           /\ \E moved \in Moves(self) :
                IF inner.ok
                    THEN /\ Bundled(t, me, "shared", moved)
                         /\ Returned(t, "Ok")
                    ELSE \* RefCell::borrow panics: already mutably borrowed
                         /\ Consumed(t, moved, TRUE)
                         /\ Returned(t, "abort")
    /\ UNCHANGED <<kinds, other, away, poison, strong, rootHeld, val, rootState, failedVal>>

nest_try_borrow(t) ==
    /\ Ready(t)
    /\ LET self == Receiver(t)
           me == remove_lifetime(deref(self))
           inner == RefCell_try_borrow(flag[me])
       IN  /\ kinds[me] = "RefCell"
           /\ flag' = [flag EXCEPT ![me] = inner.flag]
           /\ \E moved \in Moves(self) :
                IF inner.ok
                    THEN /\ Bundled(t, me, "shared", moved)
                         /\ Returned(t, "Ok")
                    ELSE \* the ? operator returns the BorrowError
                         /\ Consumed(t, moved, FALSE)
                         /\ Returned(t, "Err")
    /\ UNCHANGED <<kinds, other, away, poison, strong, rootHeld, val, rootState, failedVal>>

nest_borrow_mut(t) ==
    /\ Ready(t)
    /\ LET self == Receiver(t)
           me == remove_lifetime(deref(self))
           inner == RefCell_try_borrow_mut(flag[me])
       IN  /\ kinds[me] = "RefCell"
           /\ flag' = [flag EXCEPT ![me] = inner.flag]
           /\ \E moved \in Moves(self) :
                IF inner.ok
                    THEN /\ Bundled(t, me, "excl", moved)
                         /\ Returned(t, "Ok")
                    ELSE \* RefCell::borrow_mut panics: already borrowed
                         /\ Consumed(t, moved, TRUE)
                         /\ Returned(t, "abort")
    /\ UNCHANGED <<kinds, other, away, poison, strong, rootHeld, val, rootState, failedVal>>

\* nest_try_borrow_mut written with the panicking RefCell::borrow_mut.
nest_try_borrow_mut_unwraps(t) == nest_borrow_mut(t)

nest_try_borrow_mut(t) ==
    /\ Ready(t)
    /\ LET self == Receiver(t)
           me == remove_lifetime(deref(self))
           inner == RefCell_try_borrow_mut(flag[me])
       IN  /\ kinds[me] = "RefCell"
           /\ flag' = [flag EXCEPT ![me] = inner.flag]
           /\ \E moved \in Moves(self) :
                IF inner.ok
                    THEN /\ Bundled(t, me, "excl", moved)
                         /\ Returned(t, "Ok")
                    ELSE \* the ? operator returns the BorrowMutError
                         /\ Consumed(t, moved, FALSE)
                         /\ Returned(t, "Err")
    /\ UNCHANGED <<kinds, other, away, poison, strong, rootHeld, val, rootState, failedVal>>

(***************************************************************************)
(* mod rc: trait NestedRcWeak; mod sync: trait NestedArcWeak               *)
(***************************************************************************)
NestedRcWeak_nest_upgrade(t) ==
    /\ Ready(t)
    /\ LET self == Receiver(t)
           w == deref(self)
           inner == Weak_upgrade(strong[w])
       IN  /\ kinds[w] = "RcWeak"
           /\ strong' = [strong EXCEPT ![w] = inner.strong]
           /\ \E moved \in Moves(self) :
                IF inner.ok
                    THEN /\ Bundled(t, w, "strong", moved)
                         /\ Returned(t, "Some")
                    ELSE \* the ? operator returns None
                         /\ Consumed(t, moved, FALSE)
                         /\ Returned(t, "None")
    /\ UNCHANGED <<kinds, other, away, flag, poison, rootHeld, val, rootState, failedVal>>

NestedArcWeak_nest_upgrade(t) ==
    /\ Ready(t)
    /\ LET self == Receiver(t)
           w == deref(self)
           inner == Weak_upgrade(strong[w])
       IN  /\ kinds[w] = "ArcWeak"
           /\ strong' = [strong EXCEPT ![w] = inner.strong]
           /\ \E moved \in Moves(self) :
                IF inner.ok
                    THEN /\ Bundled(t, w, "strong", moved)
                         /\ Returned(t, "Some")
                    ELSE \* the ? operator returns None
                         /\ Consumed(t, moved, FALSE)
                         /\ Returned(t, "None")
    /\ UNCHANGED <<kinds, other, away, flag, poison, rootHeld, val, rootState, failedVal>>

(***************************************************************************)
(* mod sync: trait NestedMutex                                             *)
(***************************************************************************)
\* nest_lock that gives up on a held mutex instead of waiting for it.
nest_lock_gives_up(t) ==
    /\ Ready(t)
    /\ LET self == Receiver(t)
           me == remove_lifetime(deref(self))
           inner == Mutex_try_lock(flag[me])
       IN  /\ kinds[me] = "Mutex"
           /\ flag' = [flag EXCEPT ![me] = inner.flag]
           /\ IF inner.ok
                THEN /\ Bundled(t, me, "excl", FALSE)
                     /\ Returned(t, LockResult(poison[me]))
                ELSE /\ Consumed(t, FALSE, FALSE)
                     /\ Returned(t, "WouldBlock")
    /\ UNCHANGED <<kinds, other, away, poison, strong, rootHeld, val, rootState, failedVal>>

\* me.lock() returns once the mutex is free; until then the caller is suspended.
nest_lock(t) ==
    /\ Ready(t)
    /\ LET self == Receiver(t)
           me == remove_lifetime(deref(self))
           inner == Mutex_try_lock(flag[me])
       IN  /\ kinds[me] = "Mutex"
           /\ flag' = [flag EXCEPT ![me] = inner.flag]
           /\ \E moved \in Moves(self) :
                IF inner.ok
                    THEN /\ Bundled(t, me, "excl", moved)
                         /\ Returned(t, LockResult(poison[me]))
                    ELSE /\ waiting' = [waiting EXCEPT ![t] = TRUE]
                         /\ Returned(t, "suspended")
                         /\ UNCHANGED <<bundle, pending, panicking>>
    /\ UNCHANGED <<kinds, other, away, poison, strong, rootHeld, val, rootState, failedVal>>

\* A suspended nest_lock gets the mutex once it is free and returns.
nest_lock_resume(t) ==
    /\ waiting[t]
    /\ LET self == Receiver(t)
           me == remove_lifetime(deref(self))
           inner == Mutex_try_lock(flag[me])
       IN  /\ inner.ok
           /\ flag' = [flag EXCEPT ![me] = inner.flag]
           /\ Bundled(t, me, "excl", FALSE)
           /\ Returned(t, LockResult(poison[me]))
    /\ UNCHANGED <<kinds, other, away, poison, strong, rootHeld, val, rootState, failedVal>>

\* nest_try_lock written with the blocking me.lock().
nest_try_lock_blocks(t) == nest_lock(t)

\* nest_try_lock that unwraps the result of me.try_lock().
nest_try_lock_unwraps(t) ==
    /\ Ready(t)
    /\ LET self == Receiver(t)
           me == remove_lifetime(deref(self))
           inner == Mutex_try_lock(flag[me])
       IN  /\ kinds[me] = "Mutex"
           /\ flag' = [flag EXCEPT ![me] = inner.flag]
           /\ IF inner.ok /\ ~poison[me]
                THEN /\ Bundled(t, me, "excl", FALSE)
                     /\ Returned(t, "Ok")
                ELSE /\ Consumed(t, FALSE, TRUE)
                     /\ Returned(t, "abort")
    /\ UNCHANGED <<kinds, other, away, poison, strong, rootHeld, val, rootState, failedVal>>

nest_try_lock(t) ==
    /\ Ready(t)
    /\ LET self == Receiver(t)
           me == remove_lifetime(deref(self))
           inner == Mutex_try_lock(flag[me])
       IN  /\ kinds[me] = "Mutex"
           /\ flag' = [flag EXCEPT ![me] = inner.flag]
           /\ \E moved \in Moves(self) :
                IF inner.ok
                    THEN /\ Bundled(t, me, "excl", moved)
                         /\ Returned(t, LockResult(poison[me]))
                    ELSE /\ Consumed(t, moved, FALSE)
                         /\ Returned(t, "WouldBlock")
    /\ UNCHANGED <<kinds, other, away, poison, strong, rootHeld, val, rootState, failedVal>>

(***************************************************************************)
(* mod sync: trait NestedRwLock                                            *)
(***************************************************************************)
\* nest_try_read that lets the guard inside a poison error go.
nest_try_read_releases_poisoned(t) ==
    /\ Ready(t)
    /\ LET self == Receiver(t)
           me == remove_lifetime(deref(self))
           inner == RwLock_try_read(flag[me])
       IN  /\ kinds[me] = "RwLock"
           /\ flag' = [flag EXCEPT ![me] = IF poison[me] THEN flag[me] ELSE inner.flag]
           /\ \E moved \in Moves(self) :
                IF inner.ok
                    THEN /\ Bundled(t, me, "shared", moved)
                         /\ Returned(t, LockResult(poison[me]))
                    ELSE /\ Consumed(t, moved, FALSE)
                         /\ Returned(t, "WouldBlock")
    /\ UNCHANGED <<kinds, other, away, poison, strong, rootHeld, val, rootState, failedVal>>

nest_try_read(t) ==
    /\ Ready(t)
    /\ LET self == Receiver(t)
           me == remove_lifetime(deref(self))
           inner == RwLock_try_read(flag[me])
       IN  /\ kinds[me] = "RwLock"
           /\ flag' = [flag EXCEPT ![me] = inner.flag]
           /\ \E moved \in Moves(self) :
                IF inner.ok
                    THEN /\ Bundled(t, me, "shared", moved)
                         /\ Returned(t, LockResult(poison[me]))
                    ELSE /\ Consumed(t, moved, FALSE)
                         /\ Returned(t, "WouldBlock")
    /\ UNCHANGED <<kinds, other, away, poison, strong, rootHeld, val, rootState, failedVal>>

\* nest_try_write that maps every error of me.try_write() to WouldBlock.
nest_try_write_drops_poisoned(t) ==
    /\ Ready(t)
    /\ LET self == Receiver(t)
           me == remove_lifetime(deref(self))
           inner == RwLock_try_write(flag[me])
       IN  /\ kinds[me] = "RwLock"
           /\ IF inner.ok /\ ~poison[me]
                THEN /\ flag' = [flag EXCEPT ![me] = inner.flag]
                     /\ Bundled(t, me, "excl", FALSE)
                     /\ Returned(t, "Ok")
                ELSE /\ Consumed(t, FALSE, FALSE)
                     /\ Returned(t, "WouldBlock")
                     /\ UNCHANGED flag
    /\ UNCHANGED <<kinds, other, away, poison, strong, rootHeld, val, rootState, failedVal>>

nest_try_write(t) ==
    /\ Ready(t)
    /\ LET self == Receiver(t)
           me == remove_lifetime(deref(self))
           inner == RwLock_try_write(flag[me])
       IN  /\ kinds[me] = "RwLock"
           /\ flag' = [flag EXCEPT ![me] = inner.flag]
           /\ \E moved \in Moves(self) :
                IF inner.ok
                    THEN /\ Bundled(t, me, "excl", moved)
                         /\ Returned(t, LockResult(poison[me]))
                    ELSE /\ Consumed(t, moved, FALSE)
                         /\ Returned(t, "WouldBlock")
    /\ UNCHANGED <<kinds, other, away, poison, strong, rootHeld, val, rootState, failedVal>>

(***************************************************************************)
(* The callers: how chains start, are used and are destroyed.              *)
(***************************************************************************)
\* x.borrow(), x.try_borrow(), x.borrow_mut(), x.try_borrow_mut(): the native
\* operation of the cell of the enclosing scope, in the initial position of a
\* chain.  inner is the answer of the cell, onFail the outcome of a refusal;
\* the guard comes back by itself (nested = FALSE) or, for comparison, as a
\* nest_* operation on &x hands it out: bundled with the plain reference.
Initial(t, inner, mode, onFail, nested) ==
    /\ bundle[t] = Empty
    /\ pending[t] = <<>>
    /\ ~waiting[t]
    /\ rootState = "scope"
    /\ kinds[1] = "RefCell"
    /\ flag' = [flag EXCEPT ![1] = inner.flag]
    /\ bundle' = [bundle EXCEPT ![t] =
                    IF ~inner.ok THEN Empty
                    ELSE IF nested THEN Nested(View(1, mode, FALSE), PlainRef)
                    ELSE View(1, mode, FALSE)]
    /\ Returned(t, IF inner.ok THEN "Ok" ELSE onFail)
    /\ UNCHANGED <<kinds, other, away, poison, strong, rootHeld, val, rootState, pending, panicking,
                   waiting, failedVal>>

borrow(t) == Initial(t, RefCell_try_borrow(flag[1]), "shared", "abort", FALSE)
try_borrow(t) == Initial(t, RefCell_try_borrow(flag[1]), "shared", "Err", FALSE)
borrow_mut(t) == Initial(t, RefCell_try_borrow_mut(flag[1]), "excl", "abort", FALSE)
try_borrow_mut(t) == Initial(t, RefCell_try_borrow_mut(flag[1]), "excl", "Err", FALSE)

\* The layers stored inside layer l: what an assignment through an exclusive
\* view of layer l replaces.
Below(l) == (l + 1)..Depth

\* An assignment through the bundle that lands on a copy of the target.
deref_mut_writes_copy(t, v) ==
    /\ pending[t] = <<>>
    /\ ~waiting[t]
    /\ LET inner == Innermost(bundle[t])
       IN  /\ inner.tag = "View"
           /\ inner.mode = "excl"
           /\ \A j \in Below(inner.layer) : ~IsWeak(kinds[j])
    /\ wrote' = [wrote EXCEPT ![t] = v]
    /\ failedVal' = 0 - 1
    /\ UNCHANGED <<kinds, other, away, flag, poison, strong, rootHeld, rootState, bundle, pending,
                   panicking, waiting, last, val>>

\* DerefMut for Nested: an assignment through a bundle whose view is
\* exclusive.  At the innermost layer, *z = v; at a layer above,
\* *y = RefCell::new(..v..): the layers below are replaced by fresh ones that
\* hold v.  A write through a dangling view lands where the target no longer is.
deref_mut(t, v) ==
    /\ pending[t] = <<>>
    /\ ~waiting[t]
    /\ LET inner == Innermost(bundle[t])
           fresh == IF inner.dangling THEN {} ELSE Below(inner.layer)
       IN  /\ inner.tag = "View"
           /\ inner.mode = "excl"
           /\ \A j \in Below(inner.layer) : ~IsWeak(kinds[j])
           /\ val' = IF inner.dangling THEN val ELSE v
           /\ flag' = [j \in Layers |-> IF j \in fresh THEN 0 ELSE flag[j]]
           /\ poison' = [j \in Layers |-> IF j \in fresh THEN FALSE ELSE poison[j]]
    /\ wrote' = [wrote EXCEPT ![t] = v]
    /\ failedVal' = 0 - 1
    /\ UNCHANGED <<kinds, other, away, strong, rootHeld, rootState, bundle, pending,
                   panicking, waiting, last>>

\* A guard dropped during a panic poisons its lock (exclusive guards only).
PoisonOnDrop(k, m, p) == IsLock(k) /\ m = "excl" /\ p

\* The drop glue of actor t runs the destructor of the first handle of s and
\* leaves the others pending; panic: t is unwinding.  A release through a
\* dangling view lands where the target no longer is.
Destroy(t, s, panic) ==
    /\ s # <<>>
    /\ LET h == Head(s)
           l == h.layer
           isView == h.tag = "View"
           counted == isView /\ h.mode # "strong" /\ ~h.dangling
           poisons == counted /\ PoisonOnDrop(kinds[l], h.mode, panic)
       IN  /\ flag' = IF counted
                        THEN [flag EXCEPT ![l] = ReleaseFlag(@, h.mode)]
                        ELSE flag
           /\ strong' = IF isView /\ h.mode = "strong"
                          THEN [strong EXCEPT ![l] = @ - 1]
                          ELSE strong
           /\ poison' = IF poisons THEN [poison EXCEPT ![l] = TRUE] ELSE poison
           /\ failedVal' = IF poisons /\ l = Depth /\ wrote[t] >= 0
                             THEN wrote[t]
                             ELSE failedVal
           /\ rootState' = IF h.tag = "Inline" THEN "dropped" ELSE rootState
    /\ pending' = [pending EXCEPT ![t] = Glue(Tail(s))]
    /\ panicking' = [panicking EXCEPT ![t] = panic /\ pending'[t] # <<>>]
    /\ wrote' = [wrote EXCEPT ![t] = 0 - 1]
    /\ UNCHANGED <<kinds, other, away, rootHeld, val, waiting>>

\* The bundle goes out of scope: its drop glue starts with the innermost view.
DropBundle(t) ==
    /\ bundle[t] # Empty
    /\ pending[t] = <<>>
    /\ ~waiting[t]
    /\ bundle' = [bundle EXCEPT ![t] = Empty]
    /\ last' = [last EXCEPT ![t] = NoCall]
    /\ Destroy(t, DropOrder(bundle[t]), FALSE)

\* The holder fails (panics) while it holds a bundle: the unwinding drops it.
Panic(t) ==
    /\ bundle[t] # Empty
    /\ pending[t] = <<>>
    /\ ~waiting[t]
    /\ bundle' = [bundle EXCEPT ![t] = Empty]
    /\ last' = [last EXCEPT ![t] = NoCall]
    /\ Destroy(t, DropOrder(bundle[t]), TRUE)

\* The next pending destructor of the drop glue runs.
DropStep(t) ==
    /\ pending[t] # <<>>
    /\ Destroy(t, pending[t], panicking[t])
    /\ UNCHANGED <<bundle, last>>

(***************************************************************************)
(* test_reassign_refcell_stack: two stacks of cells, x and the y of the     *)
(* loop, and two bundle variables.  flag and val describe the stack the     *)
(* program has turned to, other the one it has turned away from.            *)
(***************************************************************************)
\* The program turns to the other stack.
Focus ==
    /\ flag' = other.flag
    /\ val' = other.val
    /\ other' = [id |-> IF other.id = "y" THEN "x" ELSE "y", flag |-> flag, val |-> val]
    /\ away' = [t \in Actors |->
                  IF bundle[t] = Empty /\ pending[t] = <<>> THEN FALSE ELSE ~away[t]]
    /\ UNCHANGED <<kinds, poison, strong, rootHeld, rootState, bundle, pending,
                   panicking, waiting, last, wrote, failedVal>>

\* mem::swap(ref1.deref_mut(), yref.deref_mut()): t holds an exclusive bundle
\* of the integer of one stack and u of the integer of the other.
swap(t, u) ==
    /\ t # u
    /\ ~away[t] /\ away[u]
    /\ pending[t] = <<>> /\ pending[u] = <<>>
    /\ Innermost(bundle[t]) = View(Depth, "excl", FALSE)
    /\ Innermost(bundle[u]) = View(Depth, "excl", FALSE)
    /\ val' = other.val
    /\ other' = [other EXCEPT !.val = val]
    /\ wrote' = [wrote EXCEPT ![t] = other.val, ![u] = val]
    /\ failedVal' = 0 - 1
    /\ UNCHANGED <<kinds, flag, poison, strong, rootHeld, rootState, bundle, pending,
                   panicking, waiting, last, away>>

\* The drop glue of a whole chain: every view released, innermost first.
RECURSIVE ReleaseAll(_, _)
ReleaseAll(f, s) ==
    IF s = <<>> THEN f
    ELSE ReleaseAll([f EXCEPT ![Head(s).layer] = ReleaseFlag(@, Head(s).mode)], Tail(s))

\* A reassignment that forgets the bundle it replaces.
assign_forgets_old(t, u) ==
    /\ t # u
    /\ bundle[u] # Empty
    /\ pending[t] = <<>> /\ pending[u] = <<>>
    /\ bundle' = [bundle EXCEPT ![t] = bundle[u], ![u] = Empty]
    /\ away' = [away EXCEPT ![t] = away[u], ![u] = FALSE]
    /\ wrote' = [wrote EXCEPT ![t] = wrote[u], ![u] = 0 - 1]
    /\ last' = [last EXCEPT ![t] = last[u], ![u] = NoCall]
    /\ UNCHANGED <<kinds, flag, other, poison, strong, rootHeld, val, rootState, pending,
                   panicking, waiting, failedVal>>

\* ref1 = yref: the bundle t held is dropped, on the stack it is on, and the
\* bundle of u moves into t.
assign(t, u) ==
    /\ t # u
    /\ bundle[u] # Empty
    /\ pending[t] = <<>> /\ pending[u] = <<>>
    /\ IF away[t]
          THEN /\ other' = [other EXCEPT !.flag = ReleaseAll(@, Views(bundle[t]))]
               /\ flag' = flag
          ELSE /\ flag' = ReleaseAll(flag, Views(bundle[t]))
               /\ other' = other
    /\ bundle' = [bundle EXCEPT ![t] = bundle[u], ![u] = Empty]
    /\ away' = [away EXCEPT ![t] = away[u], ![u] = FALSE]
    /\ wrote' = [wrote EXCEPT ![t] = wrote[u], ![u] = 0 - 1]
    /\ last' = [last EXCEPT ![t] = last[u], ![u] = NoCall]
    /\ UNCHANGED <<kinds, poison, strong, rootHeld, val, rootState, pending,
                   panicking, waiting, failedVal>>

\* The enclosing scope drops the root strong handle of a weak layer's box.
\* Dropping the owner frees the target whatever other strong handles exist.
ReleaseRoot_frees_target(l) ==
    /\ rootHeld[l]
    /\ rootHeld' = [rootHeld EXCEPT ![l] = FALSE]
    /\ strong' = [strong EXCEPT ![l] = 0]
    /\ UNCHANGED <<kinds, other, away, flag, poison, val, rootState, bundle, pending, panicking,
                   waiting, last, wrote, failedVal>>

ReleaseRoot(l) ==
    /\ rootHeld[l]
    /\ rootHeld' = [rootHeld EXCEPT ![l] = FALSE]
    /\ strong' = [strong EXCEPT ![l] = @ - 1]
    /\ UNCHANGED <<kinds, other, away, flag, poison, val, rootState, bundle, pending, panicking,
                   waiting, last, wrote, failedVal>>

\* The layer-1 primitive is moved, by value, into a receiver that stores it
\* inline.  The borrow checker allows the move only when nothing refers to it.
MoveIn(t) ==
    /\ rootState = "scope"
    /\ \A u \in Actors : bundle[u] = Empty /\ pending[u] = <<>> /\ ~waiting[u]
    /\ bundle' = [bundle EXCEPT ![t] = Inline]
    /\ rootState' = "moved"
    /\ last' = [last EXCEPT ![t] = NoCall]
    /\ UNCHANGED <<kinds, other, away, flag, poison, strong, rootHeld, val, pending, panicking,
                   waiting, wrote, failedVal>>

\* let x = ...: the scope builds the layer-1 primitive anew after it was dropped.
NewRoot ==
    /\ rootState = "dropped"
    /\ rootState' = "scope"
    /\ flag' = [l \in Layers |-> IF InRoot(l) THEN 0 ELSE flag[l]]
    /\ poison' = [l \in Layers |-> IF InRoot(l) THEN FALSE ELSE poison[l]]
    /\ val' = IF InRoot(Depth + 1) THEN 0 ELSE val
    /\ UNCHANGED <<kinds, other, away, strong, rootHeld, bundle, pending, panicking, waiting, last,
                   wrote, failedVal>>

Next ==
    \/ \E t \in Actors :
        \/ nest_borrow(t)
        \/ nest_try_borrow(t)
        \/ nest_borrow_mut(t)
        \/ nest_try_borrow_mut(t)
        \/ NestedRcWeak_nest_upgrade(t)
        \/ NestedArcWeak_nest_upgrade(t)
        \/ nest_lock(t)
        \/ nest_lock_resume(t)
        \/ nest_try_lock(t)
        \/ nest_try_read(t)
        \/ nest_try_write(t)
        \/ DropBundle(t)
        \/ DropStep(t)
        \/ Panic(t)
        \/ \E v \in Values : deref_mut(t, v)
    \/ \E l \in Layers : ReleaseRoot(l)

\* Receivers that refer to a primitive stored elsewhere.
Spec == Init /\ [][Next]_vars

NextInline ==
    \/ Next
    \/ \E t \in Actors : MoveIn(t)
    \/ NewRoot

\* The same, with receivers that store the primitive inline.
SpecInline == Init /\ [][NextInline]_vars

\* The program of the crate documentation: a stack of cells, on which chains
\* start with a native operation or with a nest_* operation.
InitCells == Init /\ \A l \in Layers : kinds[l] = "RefCell"

NextCells ==
    \E t \in Actors :
        \/ borrow(t)
        \/ try_borrow(t)
        \/ borrow_mut(t)
        \/ try_borrow_mut(t)
        \/ nest_borrow(t)
        \/ nest_try_borrow(t)
        \/ nest_borrow_mut(t)
        \/ nest_try_borrow_mut(t)
        \/ DropBundle(t)
        \/ DropStep(t)
        \/ Panic(t)
        \/ \E v \in Values : deref_mut(t, v)

CellSpec == InitCells /\ [][NextCells]_vars

\* No bundle variable other than t is in the middle of its drop glue.
NoDropBut(t) == \A u \in Actors \ {t} : pending[u] = <<>>

\* test_reassign_refcell_stack: chains on two stacks of cells, their integers
\* swapped and their bundles reassigned.  A bundle variable acts on the stack
\* the program has turned to; the program is one thread (cells are not
\* shared between threads), so a drop runs to its end before the next
\* statement.
NextSwap ==
    \/ \E t \in Actors :
        /\ ~away[t]
        /\ NoDropBut(t)
        /\ \/ borrow(t)
           \/ nest_borrow(t)
           \/ nest_borrow_mut(t)
           \/ DropBundle(t)
           \/ DropStep(t)
    \/ \E t, u \in Actors : NoDropBut(t) /\ (swap(t, u) \/ assign(t, u))
    \/ NoDropBut(0) /\ Focus

SwapSpec == InitCells /\ [][NextSwap]_vars

\* The scheduling under which a suspended nest_lock returns: every holder
\* goes on to drop its bundle, drop glue runs to its end, and a mutex that
\* is free again and again ends up admitting each of its waiters.
Fairness ==
    \A t \in Actors :
        /\ WF_vars(DropBundle(t))
        /\ WF_vars(DropStep(t))
        /\ SF_vars(nest_lock_resume(t))

FairSpec == Spec /\ Fairness

(***************************************************************************)
(* Notions used by the properties.                                         *)
(***************************************************************************)
\* The layer a live handle gives access to: 0 for the start of the chain.
HLayer(h) == IF h.tag = "View" THEN h.layer ELSE 0
\* The actors with a live view of layer l, of any mode.
AnyHolders(l) == Holders(l, "shared") \cup Holders(l, "excl")
\* The borrow state the live views of layer l amount to.
FlagOf(l) ==
    IF Holders(l, "excl") # {} THEN 0 - 1 ELSE Cardinality(Holders(l, "shared"))
\* Deref for Nested, at the end of a chain: the integer the bundle of t
\* dereferences to; -1 when the bundle does not reach the integer, or reaches
\* it through a view whose target is not there (dangling, or a freed box).
Reads(t) ==
    LET i == Innermost(bundle[t])
    IN  IF /\ i.tag = "View"
           /\ i.layer = Depth
           /\ ~i.dangling
           /\ IsWeak(kinds[Depth]) => strong[Depth] > 0
            THEN val
            ELSE 0 - 1
Idle(t) == bundle[t] = Empty /\ pending[t] = <<>> /\ ~waiting[t]

(***************************************************************************)
(* C1: while a view of a bundle is alive its owner is alive, at every      *)
(* level of the chain: the handle the view was obtained from has not been  *)
(* destroyed, and the box the view points into has not been freed.  The    *)
(* drop glue releases the views innermost first and the handle the chain   *)
(* started from last.                                                      *)
(***************************************************************************)
C1_OwnerOutlivesView ==
    \A t \in Actors :
        /\ \A v \in LiveViews(t) :
              /\ \E o \in Live(t) : HLayer(o) = v.layer - 1
              /\ (v.layer > 1 /\ IsWeak(kinds[v.layer - 1])) => strong[v.layer - 1] > 0
        /\ \A i, j \in 1..Len(pending[t]) :
              i < j => HLayer(pending[t][i]) > HLayer(pending[t][j])

\* A chain of Depth composition operations is half destroyed.
C1_Witness ==
    \E t \in Actors :
        /\ Len(pending[t]) = Depth
        /\ HLayer(pending[t][1]) = Depth - 1
        /\ HLayer(pending[t][Depth]) = 0

(***************************************************************************)
(* C2: for every receiver, one that stores its target inline included, the *)
(* location a live view refers to is the current location of its target.   *)
(***************************************************************************)
C2_ViewPointsAtTarget ==
    \A t \in Actors : \A v \in LiveViews(t) : ~v.dangling

(***************************************************************************)
(* C3: the live views of a cell or lock are at most one exclusive view or  *)
(* any number of shared views, never both; the integer is written only by  *)
(* the holder of the exclusive bundle.                                     *)
(***************************************************************************)
C3_Exclusion ==
    \A l \in Layers :
        /\ Cardinality(Holders(l, "excl")) <= 1
        /\ Holders(l, "excl") # {} => Holders(l, "shared") = {}

C3_OnlyHolderWrites ==
    val' # val =>
        \E t \in Actors :
            /\ Innermost(bundle[t]) \in {View(l, "excl", FALSE) : l \in Layers}
            /\ wrote'[t] = val'

C3_SharedXorExclusive == []C3_Exclusion /\ [][C3_OnlyHolderWrites]_vars

\* Every actor shares layer 1 and one of them holds the innermost layer exclusively.
C3_Witness ==
    /\ Holders(1, "shared") = Actors
    /\ Holders(Depth, "excl") # {}

(***************************************************************************)
(* C4: the state of every cell and lock is exactly what its live views     *)
(* amount to: an acquire adds one shared view or makes it Exclusive, a     *)
(* release takes exactly that back; with every bundle destroyed all are    *)
(* Unlocked, and an acquire of any kind on an unheld primitive succeeds.   *)
(***************************************************************************)
C4_StateMatchesViews ==
    \A l \in Layers : ~IsWeak(kinds[l]) => flag[l] = FlagOf(l)

\* A cell or lock acquire by t that returns (nest_lock: at once or after waiting).
Acquire(t) ==
    \/ nest_borrow(t)
    \/ nest_try_borrow(t)
    \/ nest_borrow_mut(t)
    \/ nest_try_borrow_mut(t)
    \/ nest_lock(t) /\ ~waiting'[t]
    \/ nest_lock_resume(t)
    \/ nest_try_lock(t)
    \/ nest_try_read(t)
    \/ nest_try_write(t)

C4_UnheldAcquireSucceeds ==
    \A t \in Actors :
        (Acquire(t) /\ AnyHolders(deref(Receiver(t))) = {}) =>
            /\ last'[t] \in {"Ok", "Poisoned"}
            /\ flag'[deref(Receiver(t))] # 0

C4_AcquireReleaseBalance == []C4_StateMatchesViews /\ [][C4_UnheldAcquireSucceeds]_vars

\* Everything has been dropped after an exclusive holder wrote the integer.
C4_Witness ==
    /\ val = 1
    /\ \A t \in Actors : Idle(t)
    /\ \A l \in Layers : flag[l] = 0

(***************************************************************************)
(* C5: nest_try_borrow with an exclusive view of the target outstanding,   *)
(* and nest_try_borrow_mut with any view of it outstanding, return the     *)
(* conflict error as a value, without a panic, and leave the borrow state  *)
(* of the cells, their views and the integer as they were.                 *)
(***************************************************************************)
C5_Conflict(t) ==
    \/ nest_try_borrow(t) /\ Holders(deref(Receiver(t)), "excl") # {}
    \/ nest_try_borrow_mut(t) /\ AnyHolders(deref(Receiver(t))) # {}

C5_Step ==
    \A t \in Actors :
        C5_Conflict(t) =>
            /\ last'[t] = "Err"
            /\ ~panicking'[t]
            /\ flag' = flag
            /\ val' = val
            /\ \A l \in Layers : \A m \in {"shared", "excl"} : Holders(l, m)' = Holders(l, m)

C5_TryBorrowConflictIsValue == [][C5_Step]_vars

\* nest_try_borrow_mut has returned the error while another actor holds views.
C5_Witness ==
    \E t, u \in Actors :
        /\ t # u
        /\ last[t] = "Err"
        /\ bundle[t] = Empty
        /\ \E l \in Layers : flag[l] > 0 /\ Holders(l, "shared") = {u}

(***************************************************************************)
(* C6: only nest_borrow and nest_borrow_mut abort, and they abort exactly  *)
(* when the target cell has a conflicting view outstanding; every other    *)
(* composition operation that returns, returns a value and starts no panic.*)
(***************************************************************************)
ValueOutcomes == {"Ok", "Err", "Some", "None", "WouldBlock", "Poisoned"}

\* A composition operation of t other than the two non-fallible cell acquires.
OtherOperation(t) ==
    \/ nest_try_borrow(t)
    \/ nest_try_borrow_mut(t)
    \/ NestedRcWeak_nest_upgrade(t)
    \/ NestedArcWeak_nest_upgrade(t)
    \/ nest_lock(t)
    \/ nest_lock_resume(t)
    \/ nest_try_lock(t)
    \/ nest_try_read(t)
    \/ nest_try_write(t)

C6_Step ==
    \A t \in Actors :
        /\ nest_borrow(t) =>
              (last'[t] = "abort" <=> Holders(deref(Receiver(t)), "excl") # {})
        /\ nest_borrow_mut(t) =>
              (last'[t] = "abort" <=> AnyHolders(deref(Receiver(t))) # {})
        /\ (nest_borrow(t) \/ nest_borrow_mut(t)) => last'[t] \in {"Ok", "abort"}
        /\ OtherOperation(t) =>
              /\ ~panicking'[t]
              /\ waiting'[t] \/ last'[t] \in ValueOutcomes
        /\ (panicking'[t] /\ ~panicking[t]) => (Panic(t) \/ last'[t] = "abort")
        /\ (last'[t] = "abort" /\ last[t] # "abort") =>
              (nest_borrow(t) \/ nest_borrow_mut(t))

C6_OneUnrecoverablePath == [][C6_Step]_vars

\* A non-fallible cell acquire has aborted its caller.
C6_Witness ==
    \E t \in Actors : last[t] = "abort" /\ panicking[t] /\ pending[t] # <<>>

(***************************************************************************)
(* C7: nest_try_lock, nest_try_read and nest_try_write on a lock that      *)
(* another holder holds exclusively return WouldBlock in that one step,    *)
(* without waiting, and leave the state of the locks (holders, shared      *)
(* counts, poison flags) and the integer as they were.                     *)
(***************************************************************************)
TryLockOperation(t) == nest_try_lock(t) \/ nest_try_read(t) \/ nest_try_write(t)

C7_Step ==
    \A t \in Actors :
        (TryLockOperation(t) /\ Holders(deref(Receiver(t)), "excl") \ {t} # {}) =>
            /\ last'[t] = "WouldBlock"
            /\ ~waiting'[t]
            /\ flag' = flag
            /\ poison' = poison
            /\ val' = val
            /\ \A l \in Layers : \A m \in {"shared", "excl"} : Holders(l, m)' = Holders(l, m)

C7_WouldBlockLeavesLock == [][C7_Step]_vars

\* A reader-writer lock is write-held by one actor and another got WouldBlock.
C7_Witness ==
    \E t, u \in Actors :
        /\ t # u
        /\ kinds[1] = "RwLock"
        /\ Holders(1, "excl") = {u}
        /\ last[t] = "WouldBlock"

(***************************************************************************)
(* C8: a holder that fails while it holds a lock exclusively poisons it,   *)
(* and the next acquire on that lock (nest_lock, nest_try_lock,            *)
(* nest_try_read, nest_try_write: the lock is free again) reports Poisoned *)
(* and carries a bundle that holds the lock and dereferences to the value  *)
(* the failed holder wrote last.                                           *)
(***************************************************************************)
\* A lock acquire by t that returns.
LockReturn(t) ==
    \/ nest_lock(t) /\ ~waiting'[t]
    \/ nest_lock_resume(t)
    \/ nest_try_lock(t)
    \/ nest_try_read(t)
    \/ nest_try_write(t)

\* The bundle t holds after the step is its receiver with a valid view of layer l.
BundlesView(t, l) ==
    /\ bundle'[t].tag = "Nested"
    /\ bundle'[t].outer = Receiver(t)
    /\ bundle'[t].inner \in {View(l, "shared", FALSE), View(l, "excl", FALSE)}
    /\ flag'[l] # 0
    /\ deref(bundle'[t]) = l + 1

C8_FailurePoisons ==
    \A t \in Actors :
        (Panic(t) \/ (DropStep(t) /\ panicking[t])) =>
            LET h == Head(IF pending[t] = <<>> THEN DropOrder(bundle[t]) ELSE pending[t])
            IN  (h.tag = "View" /\ h.mode = "excl" /\ IsLock(kinds[h.layer])) =>
                    /\ poison'[h.layer]
                    /\ wrote[t] >= 0 => val' = wrote[t]

C8_NextAcquire ==
    \A t \in Actors :
        LET l == deref(Receiver(t))
        IN  (LockReturn(t) /\ poison[l] /\ flag[l] = 0) =>
                /\ last'[t] = "Poisoned"
                /\ BundlesView(t, l)
                /\ (l = Depth /\ failedVal >= 0) => val' = failedVal

C8_PoisonedAfterFailure == [][C8_FailurePoisons /\ C8_NextAcquire]_vars

\* A holder wrote 1 and failed; the next acquire came back poison-flagged and reads 1.
C8_Witness ==
    \E t \in Actors :
        /\ last[t] = "Poisoned"
        /\ deref(Receiver(t)) = Depth + 1
        /\ failedVal = 1
        /\ val = 1

(***************************************************************************)
(* C9, as claimed: once a lock is poisoned every acquire on it that        *)
(* returns, in any state of the lock, returns the poison-flagged wrapper   *)
(* with a bundle inside.                                                   *)
(***************************************************************************)
C9_AnyStateStep ==
    \A t \in Actors :
        (LockReturn(t) /\ poison[deref(Receiver(t))]) =>
            /\ last'[t] = "Poisoned"
            /\ bundle'[t].tag = "Nested"

C9_PoisonedInAnyState == [][C9_AnyStateStep]_vars

(***************************************************************************)
(* C9, amended: once a lock is poisoned it stays poisoned, and every       *)
(* acquire on it that gets the lock returns the poison-flagged wrapper     *)
(* with a usable bundle inside; a non-blocking acquire that cannot get the *)
(* lock (nest_try_lock, nest_try_write: any holder; nest_try_read: a write *)
(* holder) returns WouldBlock and no bundle.                               *)
(***************************************************************************)
\* The lock of layer l is replaced by a fresh one: an assignment through an
\* exclusive view of a layer above it.
Replaced(l) ==
    \E t \in Actors, v \in Values :
        /\ deref_mut(t, v)
        /\ l \in Below(Innermost(bundle[t]).layer)

\* A poisoned lock stays poisoned for as long as it exists.
C9_NeverCleared == \A l \in Layers : poison[l] => (poison'[l] \/ Replaced(l))

C9_Held(t, l) ==
    \/ (nest_try_lock(t) \/ nest_try_write(t)) /\ AnyHolders(l) # {}
    \/ nest_try_read(t) /\ Holders(l, "excl") # {}

C9_Step ==
    \A t \in Actors :
        LET l == deref(Receiver(t))
        IN  (LockReturn(t) /\ poison[l]) =>
                IF C9_Held(t, l)
                    THEN last'[t] = "WouldBlock" /\ bundle'[t] = Empty
                    ELSE last'[t] = "Poisoned" /\ BundlesView(t, l)

C9_PoisonedWhenAcquired == [][C9_NeverCleared /\ C9_Step]_vars

\* Two actors hold poison-flagged bundles of the same poisoned lock.
C9_Witness ==
    \E t, u \in Actors : \E l \in Layers :
        /\ t # u
        /\ poison[l]
        /\ {t, u} \subseteq Holders(l, "shared")
        /\ last[t] = "Poisoned"
        /\ last[u] = "Poisoned"

(***************************************************************************)
(* C10: once the target of a weak reference is destroyed (its root owner   *)
(* released and its strong count at zero) the nest_upgrade that reaches it *)
(* returns None, the chain ends there without a new view, and the target   *)
(* is never revived; every strong handle in a bundle is counted in the     *)
(* strong count of its target, so no bundle views a destroyed target.      *)
(* Rc and Arc alike.                                                       *)
(***************************************************************************)
nest_upgrade(t) == NestedRcWeak_nest_upgrade(t) \/ NestedArcWeak_nest_upgrade(t)

C10_Counted ==
    \A l \in Layers :
        IsWeak(kinds[l]) =>
            strong[l] = (IF rootHeld[l] THEN 1 ELSE 0) + Cardinality(Holders(l, "strong"))

C10_Step ==
    /\ \A l \in Layers : (IsWeak(kinds[l]) /\ strong[l] = 0) => strong'[l] = 0
    /\ \A t \in Actors :
          (nest_upgrade(t) /\ strong[deref(Receiver(t))] = 0) =>
              /\ last'[t] = "None"
              /\ bundle'[t] = Empty
              /\ LiveViews(t)' = LiveViews(t)

WeakChain == \A l \in Layers : IsWeak(kinds[l])

C11_RootOnlyStep ==
    \A t \in Actors :
        (nest_upgrade(t) /\ WeakChain /\ rootHeld[Depth]) => last'[t] = "Some"

C11_Step ==
    \A t \in Actors :
        LET w == deref(Receiver(t))
        IN  (nest_upgrade(t) /\ rootHeld[w]) =>
                /\ last'[t] = "Some"
                /\ bundle'[t] = Nested(View(w, "strong", FALSE), Receiver(t))
                /\ strong'[w] = strong[w] + 1
                /\ deref(bundle'[t]) = w + 1

C11_FullChainReads ==
    \A t \in Actors :
        (WeakChain /\ deref(bundle[t]) = Depth + 1) => Reads(t) = val

NonBlockingOperation(t) ==
    \/ nest_borrow(t)
    \/ nest_try_borrow(t)
    \/ nest_borrow_mut(t)
    \/ nest_try_borrow_mut(t)
    \/ NestedRcWeak_nest_upgrade(t)
    \/ NestedArcWeak_nest_upgrade(t)
    \/ nest_try_lock(t)
    \/ nest_try_read(t)
    \/ nest_try_write(t)

\* t holds the mutex of layer l through the bundle nest_lock returned.
HoldsMutex(t, l) ==
    /\ kinds[l] = "Mutex"
    /\ bundle[t].tag = "Nested"
    /\ bundle[t].inner = View(l, "excl", FALSE)
    /\ flag[l] = 0 - 1

C12_Step ==
    \A t \in Actors :
        LET l == deref(Receiver(t))
        IN  /\ (nest_lock(t) /\ AnyHolders(l) # {}) =>
                  /\ waiting'[t]
                  /\ bundle'[t] = bundle[t]
                  /\ flag' = flag
            /\ ((nest_lock(t) \/ nest_lock_resume(t)) /\ ~waiting'[t]) =>
                  /\ AnyHolders(l) = {}
                  /\ last'[t] \in {"Ok", "Poisoned"}
                  /\ BundlesView(t, l)
                  /\ bundle'[t].inner = View(l, "excl", FALSE)
                  /\ flag'[l] = 0 - 1
            /\ (waiting'[t] /\ ~waiting[t]) => nest_lock(t)
            /\ (waiting[t] /\ ~waiting'[t]) => nest_lock_resume(t)
            /\ NonBlockingOperation(t) =>
                  /\ ~waiting'[t]
                  /\ last'[t] \in ValueOutcomes \cup {"abort"}

C12_Returns ==
    \A t \in Actors :
        waiting[t] ~> (~waiting[t] /\ \E l \in Layers : HoldsMutex(t, l))

WriteViews == {View(l, "excl", FALSE) : l \in Layers}

C13_WriteStep ==
    \A t \in Actors : \A v \in Values :
        (deref_mut(t, v) /\ Innermost(bundle[t]) \in WriteViews) =>
            /\ val' = v
            /\ \A j \in Below(Innermost(bundle[t]).layer) : flag'[j] = 0
            /\ Innermost(bundle[t]).layer = Depth => Reads(t)' = v

C13_OnlyWritesChange ==
    val' # val => \E t \in Actors : \E v \in Values : deref_mut(t, v)

\* A shared full-depth chain reads the value in place.
C13_SharedChainReads ==
    \A t \in Actors :
        Innermost(bundle[t]) = View(Depth, "shared", FALSE) => Reads(t) = val

C13_WriteThenRead ==
    []C13_SharedChainReads /\ [][C13_WriteStep /\ C13_OnlyWritesChange]_vars

\* After a write and the drop of the writer, every actor holds a shared
\* full-depth chain of cells or locks that reads the written value.
C13_Witness ==
    /\ ~IsWeak(kinds[1])
    /\ \A t \in Actors :
          /\ Innermost(bundle[t]) = View(Depth, "shared", FALSE)
          /\ Reads(t) = 1

(***************************************************************************)
(* C14: on a stack of cells of any depth, a shared acquire, fallible or     *)
(* not, of a cell with no exclusive view outstanding succeeds and bundles   *)
(* a shared view of that cell with its receiver, so a chain of them reaches *)
(* every depth; the bundle of the full chain dereferences to the current    *)
(* contents of the innermost cell.                                          *)
(***************************************************************************)
CellStack == \A l \in Layers : kinds[l] = "RefCell"

\* The number of views a handle bundles.
RECURSIVE ChainLength(_)
ChainLength(h) ==
    IF h.tag = "Nested" THEN 1 + ChainLength(h.outer)
    ELSE IF h.tag = "View" THEN 1 ELSE 0

C14_Step ==
    \A t \in Actors :
        LET l == deref(Receiver(t))
        IN  ((nest_borrow(t) \/ nest_try_borrow(t)) /\ Holders(l, "excl") = {}) =>
                /\ last'[t] = "Ok"
                /\ bundle'[t] = Nested(View(l, "shared", FALSE), Receiver(t))
                /\ ChainLength(bundle'[t]) = l
                /\ flag'[l] = flag[l] + 1

C14_ChainReads ==
    \A t \in Actors :
        (CellStack /\ ChainLength(bundle[t]) = Depth) =>
            /\ deref(bundle[t]) = Depth + 1
            /\ Reads(t) = val

C14_SharedChainSucceeds == []C14_ChainReads /\ [][C14_Step]_vars

\* Every actor holds a chain of Depth shared views of the same cells.
C14_Witness ==
    /\ CellStack
    /\ \A t \in Actors :
          /\ ChainLength(bundle[t]) = Depth
          /\ Innermost(bundle[t]).mode = "shared"
          /\ last[t] = "Ok"
          /\ Reads(t) = val
    /\ flag[Depth] = NActors

(***************************************************************************)
(* C15: on a plain reference to a cell, in the initial position of a chain, *)
(* each nest_* operation does what its native analogue does: the same       *)
(* outcome and the same borrow state, its bundle holding the view the       *)
(* native operation returns.  From there on the two chains agree: every     *)
(* further operation adds its view to the views of its receiver, the        *)
(* borrow state of every cell is what the live views amount to, whichever   *)
(* way the chain started, the full chain dereferences to the integer, and   *)
(* the drop releases the same views, leaving every cell Unlocked.           *)
(***************************************************************************)
\* The handle a chain started from.
RECURSIVE Root(_)
Root(h) == IF h.tag = "Nested" THEN Root(h.outer) ELSE h


CellOperation(t) ==
    nest_borrow(t) \/ nest_try_borrow(t) \/ nest_borrow_mut(t) \/ nest_try_borrow_mut(t)

C15_InitialStep ==
    \A t \in Actors :
        bundle[t] = Empty =>
            /\ nest_borrow(t) =>
                  Initial(t, RefCell_try_borrow(flag[1]), "shared", "abort", TRUE)
            /\ nest_try_borrow(t) =>
                  Initial(t, RefCell_try_borrow(flag[1]), "shared", "Err", TRUE)
            /\ nest_borrow_mut(t) =>
                  Initial(t, RefCell_try_borrow_mut(flag[1]), "excl", "abort", TRUE)
            /\ nest_try_borrow_mut(t) =>
                  Initial(t, RefCell_try_borrow_mut(flag[1]), "excl", "Err", TRUE)

C15_ChainStep ==
    \A t \in Actors :
        CellOperation(t) =>
            IF last'[t] = "Ok"
                THEN /\ Len(Views(bundle'[t])) = Len(Views(Receiver(t))) + 1
                     /\ Tail(Views(bundle'[t])) = Views(Receiver(t))
                     /\ Root(bundle'[t]) = Root(Receiver(t))
                ELSE /\ bundle'[t] = Empty
                     /\ OnlyViews(pending'[t]) = Views(Receiver(t))

C15_DropStep ==
    \A t \in Actors :
        DropBundle(t) =>
            <<Head(Views(bundle[t]))>> \o OnlyViews(pending'[t]) = Views(bundle[t])

C15_SameState ==
    /\ \A l \in Layers : flag[l] = FlagOf(l)
    /\ \A t \in Actors :
          Len(Views(bundle[t])) = Depth =>
              /\ Root(bundle[t]) \in {PlainRef, View(1, "shared", FALSE), View(1, "excl", FALSE)}
              /\ Reads(t) = val

C15_InitialLikeNative ==
    []C15_SameState /\ [][C15_InitialStep /\ C15_ChainStep /\ C15_DropStep]_vars

\* Two full chains of shared views of the same cells, one started with
\* x.borrow() and one with x.nest_borrow().
C15_Witness ==
    \E t, u \in Actors :
        /\ Root(bundle[t]) = View(1, "shared", FALSE)
        /\ Root(bundle[u]) = PlainRef
        /\ Views(bundle[t]) = Views(bundle[u])
        /\ Len(Views(bundle[t])) = Depth
        /\ Reads(t) = Reads(u)
        /\ \A l \in Layers : flag[l] = 2

(***************************************************************************)
(* C16: with exclusive bundles of the integers of two stacks of cells, the  *)
(* swap exchanges the two integers and nothing else: no borrow state and no *)
(* bundle changes, and no other step changes an integer, so a shared chain  *)
(* acquired on either stack after the drops reads the former integer of the *)
(* other.  A reassignment drops the bundle it replaces: its views are       *)
(* released, the borrow state of every cell of both stacks stays what the   *)
(* live views amount to, and a stack left without views is Unlocked.        *)
(***************************************************************************)
\* The integer of stack "x" or "y", wherever the program has turned to.
ValOf(id) == IF other.id = id THEN other.val ELSE val

\* The actors with a live view of layer l in mode m, on the stack the program
\* has turned to (a = FALSE) or on the other one (a = TRUE).
HoldersOn(a, l, m) ==
    {t \in Actors : away[t] = a /\ \E h \in LiveViews(t) : h.layer = l /\ h.mode = m}

FlagOn(a, l) ==
    IF HoldersOn(a, l, "excl") # {}
        THEN 0 - 1
        ELSE Cardinality(HoldersOn(a, l, "shared"))

\* What the bundle of t dereferences to, on the stack it is on.
Observes(t) == IF away[t] THEN other.val ELSE Reads(t)

C16_StacksMatchViews ==
    \A l \in Layers :
        /\ flag[l] = FlagOn(FALSE, l)
        /\ other.flag[l] = FlagOn(TRUE, l)

C16_SwapStep ==
    \A t, u \in Actors :
        swap(t, u) =>
            /\ ValOf("x")' = ValOf("y")
            /\ ValOf("y")' = ValOf("x")
            /\ Observes(t)' = Observes(u)
            /\ Observes(u)' = Observes(t)
            /\ flag' = flag
            /\ other'.flag = other.flag
            /\ bundle' = bundle

C16_OnlySwapChanges ==
    (ValOf("x")' # ValOf("x") \/ ValOf("y")' # ValOf("y")) =>
        \E t, u \in Actors : swap(t, u)

C16_AssignStep ==
    \A t, u \in Actors :
        assign(t, u) =>
            /\ bundle'[t] = bundle[u]
            /\ bundle'[u] = Empty
            /\ Observes(t)' = Observes(u)
            /\ (\A w \in Actors \ {t} : away[w] # away[t] \/ LiveViews(w) = {}) =>
                  \A l \in Layers : (IF away[t] THEN other'.flag[l] ELSE flag'[l]) = 0

C16_SwapAndReassign ==
    /\ []C16_StacksMatchViews
    /\ [][C16_SwapStep /\ C16_OnlySwapChanges /\ C16_AssignStep]_vars

\* The integers of x and y have been exchanged, the exclusive bundles are gone
\* and a shared chain on each stack reads the former integer of the other.
C16_Witness ==
    \E t, u \in Actors :
        /\ ValOf("x") = 1
        /\ ValOf("y") = 0
        /\ ~away[t]
        /\ away[u]
        /\ Innermost(bundle[t]) = View(Depth, "shared", FALSE)
        /\ Innermost(bundle[u]) = View(Depth, "shared", FALSE)
        /\ Observes(t) = ValOf(IF other.id = "y" THEN "x" ELSE "y")
        /\ Observes(u) = ValOf(other.id)

(***************************************************************************)
(* C17: a composition operation that fails with a value (Err, None,         *)
(* WouldBlock) acquires nothing and keeps nothing: the caller is left       *)
(* without a bundle and every view and strong handle of the receiver goes   *)
(* to its drop glue, which is all the caller runs until it is done; when it *)
(* is done the caller holds no view, and every primitive no one else views  *)
(* is as it was before the chain: Unlocked, or counted by its root alone.   *)
(***************************************************************************)
FailureValues == {"Err", "None", "WouldBlock"}

Operation(t) == NonBlockingOperation(t) \/ nest_lock(t) \/ nest_lock_resume(t)

\* No actor other than t has a live view of layer l.
OnlyViewer(t, l) == \A u \in Actors \ {t} : \A h \in LiveViews(u) : h.layer # l

C17_FailStep ==
    \A t \in Actors :
        (Operation(t) /\ last'[t] \in FailureValues) =>
            /\ bundle'[t] = Empty
            /\ OnlyViews(pending'[t]) = Views(Receiver(t))
            /\ flag' = flag
            /\ strong' = strong

C17_DropOnly ==
    \A t \in Actors :
        (pending[t] # <<>> /\ <<bundle[t], pending[t], last[t]>>' # <<bundle[t], pending[t], last[t]>>)
            => DropStep(t)

C17_DropDone ==
    \A t \in Actors :
        (DropStep(t) /\ pending'[t] = <<>>) =>
            /\ LiveViews(t)' = {}
            /\ \A l \in Layers :
                  OnlyViewer(t, l) =>
                      IF IsWeak(kinds[l])
                          THEN strong'[l] = IF rootHeld[l] THEN 1 ELSE 0
                          ELSE flag'[l] = 0

C17_FailureConsumesReceiver == [][C17_FailStep /\ C17_DropOnly /\ C17_DropDone]_vars

\* An operation at the end of a chain has failed with a value and the views
\* of its receiver are in their drop glue.
C17_Witness ==
    \E t \in Actors :
        /\ last[t] \in FailureValues
        /\ bundle[t] = Empty
        /\ Len(OnlyViews(pending[t])) = Depth - 1
        /\ ~panicking[t]

(***************************************************************************)
(* C18: a bundle with a view of a layer holds a view (shared, exclusive or  *)
(* a strong handle) of every layer before it on the path, from the acquire  *)
(* to the end of its drop glue.  So while it lives no other party gets an   *)
(* exclusive view of a cell or lock of the path, no assignment replaces a   *)
(* layer that is viewed, and no box on the path is freed.                   *)
(***************************************************************************)
ExclusiveAcquire(t) ==
    \/ nest_borrow_mut(t)
    \/ nest_try_borrow_mut(t)
    \/ nest_lock(t)
    \/ nest_try_lock(t)
    \/ nest_try_write(t)

\* Another party has a bundle whose path reaches layer l or goes through it.
OnPathOfOther(u, l) == \E t \in Actors \ {u} : \E h \in LiveViews(t) : h.layer >= l

C18_PathHeld ==
    \A t \in Actors : \A v \in LiveViews(t) : \A j \in 1..(v.layer - 1) :
        /\ \E h \in LiveViews(t) : h.layer = j
        /\ IF IsWeak(kinds[j]) THEN strong[j] > 0 ELSE flag[j] # 0

C18_NoExclusive ==
    \A u \in Actors :
        LET l == deref(Receiver(u))
        IN  (ExclusiveAcquire(u) /\ OnPathOfOther(u, l)) =>
                /\ last'[u] \in {"abort", "Err", "WouldBlock", "suspended"}
                /\ flag' = flag
                /\ bundle'[u] \in {Empty, bundle[u]}

C18_NoReplace ==
    \A t \in Actors : \A v \in Values :
        deref_mut(t, v) =>
            \A u \in Actors : \A h \in LiveViews(u) : h.layer <= Innermost(bundle[t]).layer

C18_WholePathHeld == []C18_PathHeld /\ [][C18_NoExclusive /\ C18_NoReplace]_vars

\* One actor holds a view of every layer of a stack of cells or locks and
\* another has just been refused an exclusive view of the first layer.
C18_Witness ==
    \E t, u \in Actors :
        /\ t # u
        /\ ~IsWeak(kinds[1])
        /\ Len(Views(bundle[t])) = Depth
        /\ Innermost(bundle[t]).layer = Depth
        /\ bundle[u] = Empty
        /\ pending[u] = <<>>
        /\ last[u] \in {"abort", "Err", "WouldBlock"}
        /\ flag[1] = 1

(***************************************************************************)
(* C19: the bundle inside a poison-flagged result of nest_lock,            *)
(* nest_try_lock, nest_try_read or nest_try_write holds the lock as the    *)
(* bundle of a plain success does.  While it is alive the lock is held:    *)
(* with the mutex or the write side held, a nest_try_lock, nest_try_read   *)
(* or nest_try_write of another party returns WouldBlock and a nest_lock   *)
(* waits; with the read side held a nest_try_write returns WouldBlock.     *)
(* The lock is released by the drop of that bundle and by nothing else.    *)
(***************************************************************************)
\* Actor t holds the bundle that its last acquire returned poison-flagged,
\* with a view of mode m of the lock of layer l.
HoldsPoisoned(t, l, m) ==
    /\ last[t] = "Poisoned"
    /\ bundle[t].tag = "Nested"
    /\ bundle[t].inner = View(l, m, FALSE)

\* The state of a lock after a successful acquire of mode m.
Acquired(f, m) == IF m = "shared" THEN f + 1 ELSE 0 - 1

C19_AcquireStep ==
    \A t \in Actors :
        LET l == deref(Receiver(t))
            m == IF nest_try_read(t) THEN "shared" ELSE "excl"
        IN  (LockReturn(t) /\ last'[t] = "Poisoned") =>
                /\ poison[l]
                /\ BundlesView(t, l)
                /\ bundle'[t].inner = View(l, m, FALSE)
                /\ flag'[l] = Acquired(flag[l], m)

C19_Held ==
    \A t \in Actors : \A l \in Layers :
        /\ HoldsPoisoned(t, l, "excl") => (IsLock(kinds[l]) /\ flag[l] = 0 - 1)
        /\ HoldsPoisoned(t, l, "shared") => (kinds[l] = "RwLock" /\ flag[l] >= 1)

C19_OthersRefused ==
    \A t, u \in Actors : \A l \in Layers :
        (t # u /\ l = deref(Receiver(u))) =>
            /\ (HoldsPoisoned(t, l, "excl") /\ TryLockOperation(u)) =>
                    /\ last'[u] = "WouldBlock"
                    /\ bundle'[u] = Empty
                    /\ flag' = flag
            /\ (HoldsPoisoned(t, l, "excl") /\ nest_lock(u)) =>
                    /\ waiting'[u]
                    /\ flag' = flag
            /\ (HoldsPoisoned(t, l, "shared") /\ nest_try_write(u)) =>
                    /\ last'[u] = "WouldBlock"
                    /\ bundle'[u] = Empty
                    /\ flag' = flag

C19_ReleasedByDrop ==
    \A t \in Actors : \A l \in Layers :
        /\ (HoldsPoisoned(t, l, "excl") /\ flag'[l] # flag[l]) =>
                /\ DropBundle(t) \/ Panic(t)
                /\ flag'[l] = 0
        /\ (HoldsPoisoned(t, l, "shared") /\ ~(DropBundle(t) \/ Panic(t))) =>
                /\ flag'[l] >= 1
                /\ bundle'[t] = bundle[t] \/ Operation(t)

C19_PoisonedHoldsLock ==
    []C19_Held /\ [][C19_AcquireStep /\ C19_OthersRefused /\ C19_ReleasedByDrop]_vars

\* A party holds a poisoned lock through a poison-flagged bundle and another
\* has just been refused it.
C19_Witness ==
    \E t, u \in Actors : \E l \in Layers :
        /\ t # u
        /\ l = 1
        /\ HoldsPoisoned(t, l, "excl")
        /\ poison[l]
        /\ pending[u] = <<>>
        /\ last[u] = "WouldBlock"
        /\ bundle[u] = Empty

(***************************************************************************)
(* C20: the bundle of a successful nest_upgrade holds a strong handle of   *)
(* its own.  While the bundle is alive the strong count of the target is   *)
(* at least one and the target exists, also after every other strong      *)
(* handle was released: the value is readable through the bundle and a     *)
(* further upgrade of the same weak reference succeeds.  When the bundle   *)
(* is dropped with no other strong handle left, the target is destroyed,   *)
(* and every later nest_upgrade that reaches it returns None.              *)
(***************************************************************************)
\* The strong handles of the target of layer l: its owner and the bundles.
Handles(l) == (IF rootHeld[l] THEN {0} ELSE {}) \cup Holders(l, "strong")

\* The handle the step of actor t destroys, if it destroys one.
Dropped(t) ==
    IF (DropBundle(t) \/ Panic(t)) /\ bundle[t] # Empty
        THEN Head(DropOrder(bundle[t]))
        ELSE IF DropStep(t) /\ pending[t] # <<>> THEN Head(pending[t]) ELSE Empty

C20_TargetAlive ==
    \A t \in Actors :
        /\ \A h \in LiveViews(t) : h.mode = "strong" => strong[h.layer] >= 1
        /\ LET i == Innermost(bundle[t])
           IN  (i.tag = "View" /\ i.mode = "strong" /\ i.layer = Depth) => Reads(t) = val

C20_UpgradeStep ==
    \A t \in Actors :
        LET w == deref(Receiver(t))
        IN  nest_upgrade(t) =>
                IF Handles(w) # {}
                    THEN /\ last'[t] = "Some"
                         /\ bundle'[t].inner = View(w, "strong", FALSE)
                         /\ strong'[w] = strong[w] + 1
                    ELSE /\ last'[t] = "None"
                         /\ bundle'[t] = Empty
                         /\ strong' = strong

C20_DropStep ==
    \A t \in Actors : \A l \in Layers :
        (Dropped(t) = View(l, "strong", FALSE)) =>
            /\ strong'[l] = strong[l] - 1
            /\ (Handles(l) = {t}) => strong'[l] = 0
            /\ (Handles(l) # {t}) => strong'[l] >= 1

C20_StaysDestroyed ==
    \A l \in Layers :
        (IsWeak(kinds[l]) /\ Handles(l) = {}) =>
            /\ ~rootHeld'[l]
            /\ Holders(l, "strong")' = {}

C20_BundleOwnsTarget ==
    []C20_TargetAlive /\ [][C20_UpgradeStep /\ C20_DropStep /\ C20_StaysDestroyed]_vars

\* The owner of the integer is gone and the bundle of a full chain of upgrades
\* holds the only strong handle of it.
C20_Witness ==
    \E t \in Actors :
        /\ WeakChain
        /\ ~rootHeld[Depth]
        /\ Handles(Depth) = {t}
        /\ strong[Depth] = 1
        /\ bundle[t].tag = "Nested"
        /\ bundle[t].inner = View(Depth, "strong", FALSE)
        /\ Reads(t) = val

====
